---------------------------- MODULE Spec2Model ----------------------------
(***************************************************************************)
(* Model of the Steam game cacher's two orchestrator scripts.  src/run.py  *)
(* (containerized mode): the lockfile guard of the entry point,            *)
(* pull_steamcmd's refresh-and-prune sequence and main's ThreadPoolExecutor*)
(* / as_completed dispatch loop.  src/steam_update_async.py (native mode): *)
(* update_steamcmd and the same dispatch loop, without lockfile or images. *)
(* Processes on one host share the lockfile and the docker daemon's images *)
(* and containers.                                                         *)
(***************************************************************************)
EXTENDS Naturals, Integers, Sequences, FiniteSets, TLC

\* ------------------------------------------------------------------ bounds
NumProcs == 2          \* orchestrator processes on the host
MaxJobs == 2           \* longest --app_ids list
MaxWorkers == 2        \* largest --max_workers value (0 stands for every value <= 0)
MaxImages == 2         \* cached image ids the daemon can come to hold
MaxContainers == 1     \* leftover containers at the start

Procs == 1..NumProcs
ImageIds == 1..MaxImages

\* Outcome of one blocking subprocess.run(..., check=True): exit status 0, a
\* non-zero exit status (CalledProcessError), or the program could not be
\* started (OSError, which `except subprocess.CalledProcessError` lets through).
ExtOutcomes == {"ok", "nonzero", "nostart"}

\* A command line: one argparse rejects, or <<len(app_ids), max_workers>>.
\* "".split(',') is [''], so app_ids is never empty.
Argv == {<<0, 0>>} \cup ((1..MaxJobs) \X (0..MaxWorkers))
Rejected(a) == a[1] = 0

\* The command lines of runs that compete for the lockfile: one app id.
HostArgv == {<<0, 0>>, <<1, 0>>, <<1, 1>>}

VARIABLES
    lockfile,      \* "./lockfile" exists
    images,        \* image ids `docker images -q steamcmd/steamcmd` would list
    latest,        \* the id steamcmd/steamcmd:latest names (0: none)
    containers,    \* number of containers `docker ps -a -q --filter ancestor=...` would list
    script,        \* "run" (run.py) or "async" (steam_update_async.py)
    argv,          \* the process's command line
    pc,            \* each process's position in its script ("off": never started)
    exitStatus,    \* process exit status (-1 while running)
    lockAtEntry,   \* what os.path.exists(lockfile) returned ("unknown" before the check)
    acquired,      \* the process executed open(lockfile, "w")
    releases,      \* successful os.remove(lockfile) calls of the process
    appIds,        \* len(app_ids) once parsed (0 before)
    maxWorkers,    \* args.max_workers once parsed
    refresh,       \* "none" | "running" | "ok" | "failed": pull_steamcmd / update_steamcmd
    pulled,        \* the image id that was latest when this run's docker pull returned
    containerIds,  \* container_ids still to be removed by the loop at run.py:96
    imageIds,      \* image_ids still to be removed by the loop at run.py:126
    rmiTried,      \* image ids this run called `docker rmi -f` on
    pruneFailed,   \* a `docker rm` / `docker rmi` of this run did not succeed
    fut,           \* fut[p][j]: "none" | "PENDING" | "RUNNING" | "FINISHED" (the Future)
    exitOf,        \* exitOf[p][j]: "none" or the ExtOutcome of job j's installer call
    invoked,       \* invoked[p][j]: subprocess.run calls made for job j
    worker,        \* worker[p][w]: the job pool thread w is running (0: idle)
    reports,       \* reports[p][j]: outcomes printed for job j by the as_completed loop
    outcome,       \* outcome[p][j]: "none" | "Succeeded" | "Failed", as printed
    notifs,        \* send_slack_message calls of the process
    jobLog,        \* job-lifecycle log entries written by the process
    slackOn,       \* SLACK_BOT_CHANNEL and SLACK_BOT_TOKEN are both set in the environment
    deliveries,    \* requests.post calls made by the process's send_slack_message
    delivFailed,   \* a requests.post / response.json() of the process raised
    hung,          \* hung[p]: jobs of the process whose installer will never exit
    lockOwner,     \* the process whose open() created the "./lockfile" that exists (0: none of them)
    errLog         \* logging.error entries of the process that record a failure of an external program

lockVars == <<lockfile, lockOwner, pc, exitStatus, lockAtEntry, acquired, releases>>
argVars == <<script, argv, appIds, maxWorkers, slackOn>>
dockerVars == <<images, latest, containers>>
refreshVars == <<refresh, pulled, containerIds, imageIds, rmiTried, pruneFailed>>
jobVars == <<fut, exitOf, invoked, worker, reports, outcome, hung>>
noteVars == <<notifs, deliveries, delivFailed, errLog>>
logVars == <<noteVars, jobLog>>
vars == <<lockVars, argVars, dockerVars, refreshVars, jobVars, logVars>>

Jobs(p) == 1..appIds[p]

Max(S) == CHOOSE x \in S : \A y \in S : y <= x

\* Descending sequence of the members of a set of ids: `docker images -q` lists
\* the newest image first.
RECURSIVE NewestFirst(_)
NewestFirst(S) ==
    IF S = {} THEN << >>
    ELSE <<Max(S)>> \o NewestFirst(S \ {Max(S)})

\* ------------------------------------------------------------------- Init
\* What no run has touched yet.
Fresh ==
    /\ lockOwner = 0
    /\ hung = [p \in Procs |-> {}]
    /\ exitStatus = [p \in Procs |-> -1]
    /\ lockAtEntry = [p \in Procs |-> "unknown"]
    /\ acquired = [p \in Procs |-> FALSE]
    /\ releases = [p \in Procs |-> 0]
    /\ appIds = [p \in Procs |-> 0]
    /\ maxWorkers = [p \in Procs |-> 0]
    /\ refresh = [p \in Procs |-> "none"]
    /\ pulled = [p \in Procs |-> 0]
    /\ containerIds = [p \in Procs |-> 0]
    /\ imageIds = [p \in Procs |-> << >>]
    /\ rmiTried = [p \in Procs |-> {}]
    /\ pruneFailed = [p \in Procs |-> FALSE]
    /\ fut = [p \in Procs |-> [j \in 1..MaxJobs |-> "none"]]
    /\ exitOf = [p \in Procs |-> [j \in 1..MaxJobs |-> "none"]]
    /\ invoked = [p \in Procs |-> [j \in 1..MaxJobs |-> 0]]
    /\ worker = [p \in Procs |-> [w \in 1..MaxWorkers |-> 0]]
    /\ reports = [p \in Procs |-> [j \in 1..MaxJobs |-> 0]]
    /\ outcome = [p \in Procs |-> [j \in 1..MaxJobs |-> "none"]]
    /\ notifs = [p \in Procs |-> 0]
    /\ jobLog = [p \in Procs |-> 0]
    /\ deliveries = [p \in Procs |-> 0]
    /\ delivFailed = [p \in Procs |-> FALSE]
    /\ errLog = [p \in Procs |-> 0]

\* One run of either script, on a host in any condition: the marker may be
\* left over from a run that died, and the daemon holds any set of cached
\* copies, the newest of them tagged latest.  run.py starts at its lockfile
\* check (run.py:194); steam_update_async.py has none and starts at
\* parse_args (steam_update_async.py:104).
Init ==
    /\ lockfile \in BOOLEAN
    /\ images \in SUBSET ImageIds
    /\ latest = (IF images = {} THEN 0 ELSE Max(images))
    /\ containers \in 0..MaxContainers
    /\ slackOn \in BOOLEAN
    /\ \E s \in {"run", "async"}, a \in Argv :
          /\ script = [p \in Procs |-> s]
          /\ argv = [p \in Procs |-> a]
          /\ pc = [p \in Procs |-> IF p # 1 THEN "off" ELSE IF s = "run" THEN "check" ELSE "parse"]
    /\ Fresh

\* Every process runs run.py, started at any time, on a host that has run the
\* updater before: one cached copy, one leftover container, no marker.
InitHost ==
    /\ lockfile = FALSE
    /\ images = {1}
    /\ latest = 1
    /\ containers = 1
    /\ slackOn = TRUE
    /\ script = [p \in Procs |-> "run"]
    /\ argv \in [Procs -> HostArgv]
    /\ pc = [p \in Procs |-> "check"]
    /\ Fresh

\* --------------------------------------------------------- the lock guard
\* Variant of LockHeldExit: the message is printed but sys.exit(1) is missing,
\* so the run goes on to create the marker.
LockHeldProceeds(p) ==
    /\ pc' = [pc EXCEPT ![p] = "create"]
    /\ UNCHANGED <<exitStatus, lockfile, lockOwner>>

\* Variant of LockHeldExit: the exit path removes the marker it found.
LockHeldExitCleans(p) ==
    /\ pc' = [pc EXCEPT ![p] = "exited"]
    /\ exitStatus' = [exitStatus EXCEPT ![p] = 1]
    /\ lockfile' = FALSE
    /\ lockOwner' = 0

\* run.py:197-199: if os.path.exists(lockfile): print(...); sys.exit(1).
LockHeldExit(p) ==
    /\ pc' = [pc EXCEPT ![p] = "exited"]
    /\ exitStatus' = [exitStatus EXCEPT ![p] = 1]
    /\ UNCHANGED <<lockfile, lockOwner>>

\* run.py:194-199: the check of the marker.
CheckLock(p) ==
    /\ pc[p] = "check"
    /\ lockAtEntry' = [lockAtEntry EXCEPT ![p] = IF lockfile THEN "present" ELSE "absent"]
    /\ IF lockfile
       THEN LockHeldExit(p)
       ELSE /\ pc' = [pc EXCEPT ![p] = "create"]
            /\ UNCHANGED <<exitStatus, lockfile, lockOwner>>
    /\ UNCHANGED <<acquired, releases, argVars, dockerVars, refreshVars, jobVars, logVars>>

\* run.py:202: open(lockfile, "w").close() creates the file, or truncates it.
CreateLock(p) ==
    /\ pc[p] = "create"
    /\ lockfile' = TRUE
    /\ lockOwner' = (IF lockfile THEN lockOwner ELSE p)
    /\ acquired' = [acquired EXCEPT ![p] = TRUE]
    /\ pc' = [pc EXCEPT ![p] = "parse"]
    /\ UNCHANGED <<exitStatus, lockAtEntry, releases, argVars, dockerVars, refreshVars,
                   jobVars, logVars>>

\* run.py:204-210, steam_update_async.py:104-110: parser.parse_args() ends the
\* process with status 2 when it rejects the command line (SystemExit, which
\* nothing catches); otherwise app_ids and max_workers are set and main starts.
ParseArgs(p) ==
    /\ pc[p] = "parse"
    /\ IF Rejected(argv[p])
       THEN /\ pc' = [pc EXCEPT ![p] = "exited"]
            /\ exitStatus' = [exitStatus EXCEPT ![p] = 2]
            /\ UNCHANGED <<appIds, maxWorkers>>
       ELSE /\ appIds' = [appIds EXCEPT ![p] = argv[p][1]]
            /\ maxWorkers' = [maxWorkers EXCEPT ![p] = argv[p][2]]
            /\ pc' = [pc EXCEPT ![p] = IF script[p] = "run" THEN "pull" ELSE "update"]
            /\ UNCHANGED exitStatus
    /\ UNCHANGED <<lockfile, lockOwner, lockAtEntry, acquired, releases, script, argv, slackOn, dockerVars,
                   refreshVars, jobVars, logVars>>

\* Variant of EndStatus: the script ends with sys.exit(1) when a job was
\* reported as failed.
EndStatusCountsFailures(p) ==
    IF \E j \in 1..MaxJobs : outcome[p][j] = "Failed" THEN 1 ELSE 0

\* run.py:211-215, steam_update_async.py:111: main() returns None, which
\* nothing reads, and the script runs off its end: exit status 0.
EndStatus(p) == 0

\* main returns: run.py goes on to line 215, steam_update_async.py ends (line 111).
MainReturns(p) ==
    /\ pc' = [pc EXCEPT ![p] = IF script[p] = "run" THEN "release" ELSE "exited"]
    /\ exitStatus' = [exitStatus EXCEPT ![p] = IF script[p] = "run" THEN @ ELSE EndStatus(p)]

\* run.py:214-215: os.remove(lockfile); FileNotFoundError is not caught and
\* ends the interpreter with status 1.
Release(p) ==
    /\ pc[p] = "release"
    /\ pc' = [pc EXCEPT ![p] = "exited"]
    /\ IF lockfile
       THEN /\ lockfile' = FALSE
            /\ lockOwner' = 0
            /\ releases' = [releases EXCEPT ![p] = @ + 1]
            /\ exitStatus' = [exitStatus EXCEPT ![p] = EndStatus(p)]
       ELSE /\ exitStatus' = [exitStatus EXCEPT ![p] = 1]
            /\ UNCHANGED <<lockfile, lockOwner, releases>>
    /\ UNCHANGED <<lockAtEntry, acquired, argVars, dockerVars, refreshVars, jobVars, logVars>>

\* ------------------------------------------------- send_slack_message
\* Outcome of requests.post(...) followed by response.json(): both return, or
\* one of them raises (connection refused, a body that is not JSON).
SlackOutcomes == {"delivered", "raised"}

\* Variant of SlackReturns: no try/except around the post, so a delivery that
\* raises leaves send_slack_message by that exception.
SlackReturnsIfDelivered(d) == d = "delivered"

\* run.py:51-55, steam_update_async.py:45-49: `except Exception` prints the
\* error, so send_slack_message returns normally whatever the delivery did.
SlackReturns(d) == TRUE

\* run.py:27-52 builds the message and posts it without reading ENABLE_SLACK
\* (run.py:16, which nothing reads); steam_update_async.py:18-22 returns early
\* when the channel or the token is not set.
Attempts(p) == script[p] = "run" \/ slackOn

\* The call send_slack_message(...) returns to its caller.
NotifyReturns(p, d) == Attempts(p) => SlackReturns(d)

\* One call of send_slack_message whose delivery, if attempted, ends as d.
send_slack_message(p, d) ==
    /\ notifs' = [notifs EXCEPT ![p] = @ + 1]
    /\ deliveries' = [deliveries EXCEPT ![p] = IF Attempts(p) THEN @ + 1 ELSE @]
    /\ delivFailed' = [delivFailed EXCEPT ![p] = @ \/ (Attempts(p) /\ d = "raised")]

\* ------------------------------------------------------ pull_steamcmd
\* What a successful `docker pull steamcmd/steamcmd:latest` leaves: the tagged
\* copy is up to date, or a newer copy is downloaded and takes the tag.
PullResults ==
    LET top == IF images = {} THEN 0 ELSE Max(images)
    IN  (IF latest # 0 THEN {<<images, latest>>} ELSE {})
        \cup (IF top < MaxImages THEN {<<images \cup {top + 1}, top + 1>>} ELSE {})

\* run.py:74-76, 106-108, 136-138: the except clause of a docker command calls
\* send_slack_message, then logging.error; steam_update_async.py:58-59 only
\* logs.  run.py:175, steam_update_async.py:87: main's except clause logs the
\* exception that reached it: the command's own, unless send_slack_message
\* raised one in its place.
RefreshFailReported(p, r) ==
    IF r = "nonzero" /\ script[p] = "run"
    THEN \E d \in SlackOutcomes :
            /\ send_slack_message(p, d)
            /\ errLog' = [errLog EXCEPT ![p] = IF NotifyReturns(p, d) THEN @ + 2 ELSE @]
    ELSE /\ errLog' = [errLog EXCEPT ![p] = IF r = "nonzero" THEN @ + 2 ELSE @ + 1]
         /\ UNCHANGED <<notifs, deliveries, delivFailed>>

\* Variant of RefreshFail: main's except clause logs and prints but does not
\* return, so the run goes on to the pool.
RefreshFailSwallowed(p, r) ==
    /\ RefreshFailReported(p, r)
    /\ refresh' = [refresh EXCEPT ![p] = "failed"]
    /\ pc' = [pc EXCEPT ![p] = "pool"]
    /\ UNCHANGED exitStatus

\* run.py:74-77, 106-109, 136-139: a CalledProcessError is notified, logged and
\* re-raised; steam_update_async.py:58-60: logged and re-raised.  An OSError
\* passes through.  run.py:174-177, steam_update_async.py:86-89: main logs and
\* prints any exception of the refresh and returns without dispatching.
RefreshFail(p, r) ==
    /\ RefreshFailReported(p, r)
    /\ refresh' = [refresh EXCEPT ![p] = "failed"]
    /\ MainReturns(p)

\* run.py:62-77: docker pull.
Pull(p) ==
    /\ pc[p] = "pull"
    /\ \/ \E res \in PullResults :
             /\ images' = res[1]
             /\ latest' = res[2]
             /\ pulled' = [pulled EXCEPT ![p] = res[2]]
             /\ refresh' = [refresh EXCEPT ![p] = "running"]
             /\ pc' = [pc EXCEPT ![p] = "ps"]
             /\ UNCHANGED <<noteVars, exitStatus>>
       \/ \E r \in ExtOutcomes \ {"ok"} :
             /\ RefreshFail(p, r)
             /\ UNCHANGED <<images, latest, pulled>>
    /\ UNCHANGED <<lockfile, lockOwner, lockAtEntry, acquired, releases, argVars, containers,
                   containerIds, imageIds, rmiTried, pruneFailed, jobVars, jobLog>>

\* run.py:82-93: docker ps -a -q --filter ancestor=steamcmd/steamcmd.
ListContainers(p) ==
    /\ pc[p] = "ps"
    /\ \/ /\ containerIds' = [containerIds EXCEPT ![p] = containers]
          /\ pc' = [pc EXCEPT ![p] = IF containers = 0 THEN "imgs" ELSE "rm"]
          /\ UNCHANGED <<noteVars, refresh, exitStatus>>
       \/ \E r \in ExtOutcomes \ {"ok"} :
             /\ RefreshFail(p, r)
             /\ UNCHANGED containerIds
    /\ UNCHANGED <<lockfile, lockOwner, lockAtEntry, acquired, releases, argVars, dockerVars,
                   pulled, imageIds, rmiTried, pruneFailed, jobVars, jobLog>>

\* Variant of PruneFail: the except clause only logs (no notification, no
\* raise), so pull_steamcmd returns normally and main goes on to the pool.
PruneFailLogged(p, r) ==
    /\ pruneFailed' = [pruneFailed EXCEPT ![p] = TRUE]
    /\ refresh' = [refresh EXCEPT ![p] = "ok"]
    /\ pc' = [pc EXCEPT ![p] = "pool"]
    /\ UNCHANGED <<noteVars, exitStatus>>

\* run.py:106-109 and 136-139: what a failed `docker rm` / `docker rmi` does to
\* the run: the loop is left and the failure is that of the refresh.
PruneFail(p, r) ==
    /\ RefreshFail(p, r)
    /\ pruneFailed' = [pruneFailed EXCEPT ![p] = TRUE]

\* run.py:96-105: one iteration of the container loop, docker rm -v <id>.
RemoveContainer(p) ==
    /\ pc[p] = "rm"
    /\ \/ /\ containers > 0
          /\ containers' = containers - 1
          /\ containerIds' = [containerIds EXCEPT ![p] = @ - 1]
          /\ pc' = [pc EXCEPT ![p] = IF containerIds[p] = 1 THEN "imgs" ELSE "rm"]
          /\ UNCHANGED <<noteVars, refresh, pruneFailed, exitStatus>>
       \/ \E r \in ExtOutcomes \ {"ok"} :
             /\ PruneFail(p, r)
             /\ UNCHANGED <<containers, containerIds>>
    /\ UNCHANGED <<lockfile, lockOwner, lockAtEntry, acquired, releases, argVars, images,
                   latest, pulled, imageIds, rmiTried, jobVars, jobLog>>

\* run.py:116-126: the ids the image loop visits: every listed copy.
ImagesToRemove(p) == NewestFirst(images)

\* run.py:114-123: docker images -q steamcmd/steamcmd.
ListImages(p) ==
    /\ pc[p] = "imgs"
    /\ \/ /\ imageIds' = [imageIds EXCEPT ![p] = ImagesToRemove(p)]
          /\ IF ImagesToRemove(p) = << >>
             THEN /\ refresh' = [refresh EXCEPT ![p] = "ok"]
                  /\ pc' = [pc EXCEPT ![p] = "pool"]
             ELSE /\ pc' = [pc EXCEPT ![p] = "rmi"]
                  /\ UNCHANGED refresh
          /\ UNCHANGED <<noteVars, exitStatus>>
       \/ \E r \in ExtOutcomes \ {"ok"} :
             /\ RefreshFail(p, r)
             /\ UNCHANGED imageIds
    /\ UNCHANGED <<lockfile, lockOwner, lockAtEntry, acquired, releases, argVars, dockerVars,
                   pulled, containerIds, rmiTried, pruneFailed, jobVars, jobLog>>

\* run.py:126-135: one iteration of the image loop, docker rmi -f <id>; after
\* the last id pull_steamcmd returns and main goes on to the pool.
RemoveImage(p) ==
    /\ pc[p] = "rmi"
    /\ rmiTried' = [rmiTried EXCEPT ![p] = @ \cup {Head(imageIds[p])}]
    /\ \/ /\ Head(imageIds[p]) \in images
          /\ images' = images \ {Head(imageIds[p])}
          /\ latest' = (IF Head(imageIds[p]) = latest THEN 0 ELSE latest)
          /\ imageIds' = [imageIds EXCEPT ![p] = Tail(@)]
          /\ IF Tail(imageIds[p]) = << >>
             THEN /\ refresh' = [refresh EXCEPT ![p] = "ok"]
                  /\ pc' = [pc EXCEPT ![p] = "pool"]
             ELSE UNCHANGED <<refresh, pc>>
          /\ UNCHANGED <<noteVars, pruneFailed, exitStatus>>
       \/ \E r \in ExtOutcomes \ {"ok"} :
             /\ PruneFail(p, r)
             /\ UNCHANGED <<images, latest, imageIds>>
    /\ UNCHANGED <<lockfile, lockOwner, lockAtEntry, acquired, releases, argVars, containers,
                   pulled, containerIds, jobVars, jobLog>>

\* steam_update_async.py:52-60 and 83-89: steamcmd +login anonymous +quit.
UpdateSteamcmd(p) ==
    /\ pc[p] = "update"
    /\ \/ /\ refresh' = [refresh EXCEPT ![p] = "ok"]
          /\ pc' = [pc EXCEPT ![p] = "pool"]
          /\ UNCHANGED <<noteVars, exitStatus>>
       \/ \E r \in ExtOutcomes \ {"ok"} : RefreshFail(p, r)
    /\ UNCHANGED <<lockfile, lockOwner, lockAtEntry, acquired, releases, argVars, dockerVars, pulled,
                   containerIds, imageIds, rmiTried, pruneFailed, jobVars, jobLog>>

\* ------------------------------------------------------------- main's pool
\* Variant of PoolSize: the pool is sized by the number of app ids.
PoolSizePerJob(p) == appIds[p]

\* run.py:179, steam_update_async.py:91: ThreadPoolExecutor(max_workers=max_workers),
\* the number of pool threads.
PoolSize(p) == maxWorkers[p]

\* run.py:179, steam_update_async.py:91: the constructor raises ValueError for
\* max_workers <= 0, which nothing catches: the interpreter ends with status 1.
CreatePool(p) ==
    /\ pc[p] = "pool"
    /\ IF PoolSize(p) <= 0
       THEN /\ pc' = [pc EXCEPT ![p] = "exited"]
            /\ exitStatus' = [exitStatus EXCEPT ![p] = 1]
       ELSE /\ pc' = [pc EXCEPT ![p] = "submit"]
            /\ UNCHANGED exitStatus
    /\ UNCHANGED <<lockfile, lockOwner, lockAtEntry, acquired, releases, argVars, dockerVars, refreshVars,
                   jobVars, logVars>>

\* run.py:180, steam_update_async.py:92: executor.submit for the next app_id of
\* the comprehension.
Submit(p) ==
    /\ pc[p] = "submit"
    /\ LET j == Cardinality({i \in Jobs(p) : fut[p][i] # "none"}) + 1
       IN  /\ fut' = [fut EXCEPT ![p][j] = "PENDING"]
           /\ pc' = [pc EXCEPT ![p] = IF j = appIds[p] THEN "drain" ELSE "submit"]
    /\ UNCHANGED <<lockfile, lockOwner, exitStatus, lockAtEntry, acquired, releases, argVars, dockerVars,
                   refreshVars, exitOf, invoked, worker, reports, outcome, hung, logVars>>

\* The pool's work queue is first in, first out.
NextQueued(p) ==
    CHOOSE j \in Jobs(p) : fut[p][j] = "PENDING" /\ \A i \in 1..(j - 1) : fut[p][i] # "PENDING"

\* run.py:142-161, steam_update_async.py:62-72: an idle pool thread takes the
\* oldest queued call of install_or_update_game and blocks in subprocess.run;
\* run.py logs the start first.
WorkerTake(p, w) ==
    /\ pc[p] \in {"submit", "drain"}
    /\ w \in 1..PoolSize(p)
    /\ worker[p][w] = 0
    /\ \E i \in Jobs(p) : fut[p][i] = "PENDING"
    /\ fut' = [fut EXCEPT ![p][NextQueued(p)] = "RUNNING"]
    /\ worker' = [worker EXCEPT ![p][w] = NextQueued(p)]
    /\ invoked' = [invoked EXCEPT ![p][NextQueued(p)] = @ + 1]
    /\ jobLog' = [jobLog EXCEPT ![p] = IF script[p] = "run" THEN @ + 1 ELSE @]
    /\ UNCHANGED <<lockVars, argVars, dockerVars, refreshVars, exitOf, reports, outcome, hung, noteVars>>

\* run.py:160-161, steam_update_async.py:71-72: subprocess.run is called
\* without a timeout, so an installer that never exits keeps its pool thread
\* in the call for good.
InstallerHangs(p, w) ==
    /\ worker[p][w] # 0
    /\ fut[p][worker[p][w]] = "RUNNING"
    /\ worker[p][w] \notin hung[p]
    /\ hung' = [hung EXCEPT ![p] = @ \cup {worker[p][w]}]
    /\ UNCHANGED <<lockVars, argVars, dockerVars, refreshVars, fut, exitOf, invoked, worker,
                   reports, outcome, logVars>>

\* Variant of WorkerFinish: a call that raised is queued again, once.
WorkerFinishRetries(p, w) ==
    /\ worker[p][w] # 0
    /\ worker[p][w] \notin hung[p]
    /\ \E r \in ExtOutcomes :
          /\ exitOf' = [exitOf EXCEPT ![p][worker[p][w]] = r]
          /\ jobLog' = [jobLog EXCEPT ![p] = IF r = "nostart" THEN @ ELSE @ + 1]
          /\ errLog' = [errLog EXCEPT ![p] = IF r = "nonzero" THEN @ + 1 ELSE @]
          /\ IF r = "nonzero" /\ script[p] = "async"
             THEN \E d \in SlackOutcomes : send_slack_message(p, d)
             ELSE UNCHANGED <<notifs, deliveries, delivFailed>>
          /\ fut' = [fut EXCEPT ![p][worker[p][w]] =
                         IF r # "ok" /\ invoked[p][worker[p][w]] < 2 THEN "PENDING" ELSE "FINISHED"]
    /\ worker' = [worker EXCEPT ![p][w] = 0]
    /\ UNCHANGED <<lockVars, argVars, dockerVars, refreshVars, invoked, reports, outcome, hung>>

\* Variant of WorkerFinish: a pool thread whose call raised does not go back
\* to the pool.
WorkerFinishThreadLost(p, w) ==
    /\ worker[p][w] # 0
    /\ fut[p][worker[p][w]] = "RUNNING"
    /\ worker[p][w] \notin hung[p]
    /\ \E r \in ExtOutcomes :
          /\ exitOf' = [exitOf EXCEPT ![p][worker[p][w]] = r]
          /\ jobLog' = [jobLog EXCEPT ![p] = IF r = "nostart" THEN @ ELSE @ + 1]
          /\ errLog' = [errLog EXCEPT ![p] = IF r = "nonzero" THEN @ + 1 ELSE @]
          /\ IF r = "nonzero" /\ script[p] = "async"
             THEN \E d \in SlackOutcomes : send_slack_message(p, d)
             ELSE UNCHANGED <<notifs, deliveries, delivFailed>>
          /\ worker' = [worker EXCEPT ![p][w] = IF r = "ok" THEN 0 ELSE @]
    /\ fut' = [fut EXCEPT ![p][worker[p][w]] = "FINISHED"]
    /\ UNCHANGED <<lockVars, argVars, dockerVars, refreshVars, invoked, reports, outcome, hung>>

\* run.py:160-165, steam_update_async.py:71-77: the installer returns; the call
\* logs success, or logs the CalledProcessError (steam_update_async.py also
\* notifies it) and re-raises it; an OSError passes unlogged.  The Future is
\* finished with the result or the exception and the thread is free again.
WorkerFinish(p, w) ==
    /\ worker[p][w] # 0
    /\ worker[p][w] \notin hung[p]
    /\ \E r \in ExtOutcomes :
          /\ exitOf' = [exitOf EXCEPT ![p][worker[p][w]] = r]
          /\ jobLog' = [jobLog EXCEPT ![p] = IF r = "nostart" THEN @ ELSE @ + 1]
          /\ errLog' = [errLog EXCEPT ![p] = IF r = "nonzero" THEN @ + 1 ELSE @]
          /\ IF r = "nonzero" /\ script[p] = "async"
             THEN \E d \in SlackOutcomes : send_slack_message(p, d)
             ELSE UNCHANGED <<notifs, deliveries, delivFailed>>
    /\ fut' = [fut EXCEPT ![p][worker[p][w]] = "FINISHED"]
    /\ worker' = [worker EXCEPT ![p][w] = 0]
    /\ UNCHANGED <<lockVars, argVars, dockerVars, refreshVars, invoked, reports, outcome, hung>>

\* Variant of Drain: the except clause re-raises after reporting, so the first
\* failing job ends the loop and the process (status 1) with its siblings
\* unreported.
DrainReraises(p, j) ==
    /\ pc[p] = "drain"
    /\ j \in Jobs(p)
    /\ fut[p][j] = "FINISHED"
    /\ reports[p][j] = 0
    /\ reports' = [reports EXCEPT ![p][j] = @ + 1]
    /\ IF exitOf[p][j] = "ok"
       THEN /\ outcome' = [outcome EXCEPT ![p][j] = "Succeeded"]
            /\ UNCHANGED <<logVars, pc, exitStatus>>
       ELSE /\ outcome' = [outcome EXCEPT ![p][j] = "Failed"]
            /\ jobLog' = [jobLog EXCEPT ![p] = @ + 1]
            /\ errLog' = [errLog EXCEPT ![p] = @ + 1]
            /\ IF script[p] = "run"
               THEN \E d \in SlackOutcomes : send_slack_message(p, d)
               ELSE UNCHANGED <<notifs, deliveries, delivFailed>>
            /\ pc' = [pc EXCEPT ![p] = "exited"]
            /\ exitStatus' = [exitStatus EXCEPT ![p] = 1]
    /\ UNCHANGED <<lockfile, lockOwner, lockAtEntry, acquired, releases, argVars, dockerVars, refreshVars,
                   fut, exitOf, invoked, worker, hung>>

\* run.py:182-190, steam_update_async.py:94-101: one iteration of
\* `for future in as_completed(futures)`: future.result() returns and success
\* is printed, or it raises what the call raised and the failure is logged
\* and printed (run.py notifies it between the two: an exception leaving
\* send_slack_message at run.py:189 would leave the loop and main uncaught).
Drain(p, j) ==
    /\ pc[p] = "drain"
    /\ j \in Jobs(p)
    /\ fut[p][j] = "FINISHED"
    /\ reports[p][j] = 0
    /\ reports' = [reports EXCEPT ![p][j] = @ + 1]
    /\ IF exitOf[p][j] = "ok"
       THEN /\ outcome' = [outcome EXCEPT ![p][j] = "Succeeded"]
            /\ UNCHANGED <<logVars, pc, exitStatus>>
       ELSE /\ outcome' = [outcome EXCEPT ![p][j] = "Failed"]
            /\ jobLog' = [jobLog EXCEPT ![p] = @ + 1]
            /\ errLog' = [errLog EXCEPT ![p] = @ + 1]
            /\ IF script[p] = "run"
               THEN \E d \in SlackOutcomes :
                       /\ send_slack_message(p, d)
                       /\ IF NotifyReturns(p, d)
                          THEN UNCHANGED <<pc, exitStatus>>
                          ELSE /\ pc' = [pc EXCEPT ![p] = "exited"]
                               /\ exitStatus' = [exitStatus EXCEPT ![p] = 1]
               ELSE UNCHANGED <<notifs, deliveries, delivFailed, pc, exitStatus>>
    /\ UNCHANGED <<lockfile, lockOwner, lockAtEntry, acquired, releases, argVars, dockerVars, refreshVars,
                   fut, exitOf, invoked, worker, hung>>

\* Variant of LoopDone: the loop is left after the first future it yields.
LoopDoneOnFirst(p) == \E j \in Jobs(p) : reports[p][j] > 0

\* run.py:182, steam_update_async.py:94: as_completed is exhausted once every
\* future has been yielded.
LoopDone(p) == \A j \in Jobs(p) : reports[p][j] > 0

\* Variant of PoolExit: main returns once the jobs are submitted, without
\* iterating as_completed and without the with block waiting for the pool.
PoolExitNoWait(p) ==
    /\ pc[p] = "drain"
    /\ MainReturns(p)
    /\ UNCHANGED <<lockfile, lockOwner, lockAtEntry, acquired, releases, argVars, dockerVars,
                   refreshVars, jobVars, logVars>>

\* run.py:179-190, steam_update_async.py:91-101: the for loop ends, the with
\* block's shutdown(wait=True) waits for every submitted future, and main returns.
PoolExit(p) ==
    /\ pc[p] = "drain"
    /\ LoopDone(p)
    /\ \A j \in Jobs(p) : fut[p][j] = "FINISHED"
    /\ MainReturns(p)
    /\ UNCHANGED <<lockfile, lockOwner, lockAtEntry, acquired, releases, argVars, dockerVars,
                   refreshVars, jobVars, logVars>>

\* ------------------------------------------------------------ specification
Next ==
    \E p \in Procs :
        \/ CheckLock(p)
        \/ CreateLock(p)
        \/ ParseArgs(p)
        \/ Pull(p)
        \/ ListContainers(p)
        \/ RemoveContainer(p)
        \/ ListImages(p)
        \/ RemoveImage(p)
        \/ UpdateSteamcmd(p)
        \/ CreatePool(p)
        \/ Submit(p)
        \/ \E w \in 1..MaxWorkers : WorkerTake(p, w) \/ WorkerFinish(p, w)
        \/ \E j \in 1..MaxJobs : Drain(p, j)
        \/ PoolExit(p)
        \/ Release(p)

\* One run of either script.
Spec == Init /\ [][Next]_vars

\* run.py:194-202: the marker is a plain file in the working directory, which
\* an operator can delete at any time (the remedy for a marker left behind).
OperatorRemove ==
    /\ lockfile
    /\ lockfile' = FALSE
    /\ lockOwner' = 0
    /\ UNCHANGED <<pc, exitStatus, lockAtEntry, acquired, releases, argVars, dockerVars,
                   refreshVars, jobVars, logVars>>

NextOperator == Next \/ OperatorRemove

\* One run, with an operator at the host.
SpecOperator == Init /\ [][NextOperator]_vars

\* Concurrent runs of run.py on one host.
NextHost ==
    \E p \in Procs :
        \/ CheckLock(p)
        \/ CreateLock(p)
        \/ ParseArgs(p)
        \/ Pull(p)
        \/ ListContainers(p)
        \/ RemoveContainer(p)
        \/ ListImages(p)
        \/ RemoveImage(p)
        \/ CreatePool(p)
        \/ Submit(p)
        \/ \E w \in 1..MaxWorkers : WorkerTake(p, w) \/ WorkerFinish(p, w)
        \/ \E j \in 1..MaxJobs : Drain(p, j)
        \/ PoolExit(p)
        \/ Release(p)

SpecHost == InitHost /\ [][NextHost]_vars

\* One run of run.py that finds no marker, on the host of InitHost, with any
\* command line.
InitLive ==
    /\ lockfile = FALSE
    /\ images = {1}
    /\ latest = 1
    /\ containers = 1
    /\ slackOn = TRUE
    /\ script = [p \in Procs |-> "run"]
    /\ \E a \in Argv : argv = [p \in Procs |-> a]
    /\ pc = [p \in Procs |-> IF p = 1 THEN "check" ELSE "off"]
    /\ Fresh

\* The steps of run.py, and installers that never exit.
NextLive ==
    \/ NextHost
    \/ \E p \in Procs, w \in 1..MaxWorkers : InstallerHangs(p, w)

\* The interpreter's threads are scheduled by the operating system, and an
\* external program that is not hung exits: a step of the program that stays
\* possible is eventually taken.
Fairness == WF_vars(NextHost)

\* One run of run.py under fair scheduling.
SpecLive == InitLive /\ [][NextLive]_vars /\ Fairness

\* ------------------------------------------------------------ properties
Started(p) == \E j \in 1..MaxJobs : fut[p][j] # "none"
Running(p) == {j \in 1..MaxJobs : fut[p][j] = "RUNNING"}

\* main got through its pool: the refresh succeeded, the pool was created and
\* the with block was left.
DispatcherFinished(p) ==
    /\ pc[p] \in {"release", "exited"}
    /\ refresh[p] = "ok"
    /\ maxWorkers[p] >= 1

\* C1: at most one process at a time has created the marker and not yet ended.
C1_MutualExclusion ==
    Cardinality({p \in Procs : acquired[p] /\ pc[p] # "exited"}) <= 1

\* C2: a run that acquired the lock and has ended, by whatever path, leaves the
\* marker absent and has released it exactly once.
C2_ReleasedOnEveryExit ==
    \A p \in Procs : (acquired[p] /\ pc[p] = "exited") => (~lockfile /\ releases[p] = 1)

\* C3: a run that found the marker present has exited with status 1 and has
\* refreshed nothing, dispatched no job, written no job-lifecycle log entry and
\* sent no notification.
C3_LockHeldRunDoesNothing ==
    \A p \in Procs :
        lockAtEntry[p] = "present" =>
            /\ pc[p] = "exited"
            /\ exitStatus[p] = 1
            /\ refresh[p] = "none"
            /\ pulled[p] = 0
            /\ rmiTried[p] = {}
            /\ \A j \in 1..MaxJobs : fut[p][j] = "none" /\ invoked[p][j] = 0 /\ reports[p][j] = 0
            /\ jobLog[p] = 0
            /\ notifs[p] = 0

C3_Witness ==
    \E p \in Procs : lockAtEntry[p] = "present" /\ pc[p] = "exited" /\ exitStatus[p] = 1

\* C4: the step of a run that finds the marker present ends that run and leaves
\* the marker as it was, still present; that run has neither created nor
\* removed it.
C4_FailedAcquireLeavesLock ==
    [][\A p \in Procs :
          (pc[p] = "check" /\ lockfile /\ pc'[p] # pc[p]) =>
              /\ lockfile' = lockfile
              /\ lockfile'
              /\ pc'[p] = "exited"
              /\ ~acquired'[p]
              /\ releases'[p] = 0]_vars

C4_Witness ==
    \E p \in Procs :
        /\ lockAtEntry[p] = "present"
        /\ pc[p] = "exited"
        /\ ~acquired[p]
        /\ releases[p] = 0
        /\ lockfile

C6_CompleteOutcomes ==
    \A p \in Procs :
        DispatcherFinished(p) =>
            \A j \in 1..MaxJobs : reports[p][j] = (IF j <= appIds[p] THEN 1 ELSE 0)

C6_Witness ==
    \E p \in Procs :
        /\ DispatcherFinished(p)
        /\ appIds[p] = MaxJobs
        /\ maxWorkers[p] = 1
        /\ \A j \in 1..MaxJobs : reports[p][j] = 1

\* C7: every reported outcome is the one the job's own installer call
\* produced, and once the dispatcher has finished every job of the batch has
\* been run once and reported that way, whatever its siblings did.
C7_FailureIsolation ==
    \A p \in Procs :
        /\ \A j \in 1..MaxJobs :
              outcome[p][j] # "none" =>
                  /\ exitOf[p][j] # "none"
                  /\ outcome[p][j] = (IF exitOf[p][j] = "ok" THEN "Succeeded" ELSE "Failed")
        /\ DispatcherFinished(p) =>
              \A j \in Jobs(p) :
                  invoked[p][j] = 1 /\ fut[p][j] = "FINISHED" /\ outcome[p][j] # "none"

C7_Witness ==
    \E p \in Procs :
        /\ DispatcherFinished(p)
        /\ appIds[p] >= 2
        /\ outcome[p][1] = "Failed"
        /\ outcome[p][2] = "Succeeded"

\* C8: the jobs running in a run are never more than max_workers, and each
\* running job occupies exactly one pool thread, which holds nothing else.
C8_BoundedConcurrency ==
    \A p \in Procs :
        /\ Cardinality(Running(p)) <= maxWorkers[p]
        /\ \A j \in Running(p) : Cardinality({w \in 1..MaxWorkers : worker[p][w] = j}) = 1
        /\ \A w \in 1..MaxWorkers : worker[p][w] # 0 => worker[p][w] \in Running(p)

C8_Witness ==
    \E p \in Procs :
        /\ maxWorkers[p] = 1
        /\ Cardinality(Running(p)) = 1
        /\ \E j \in Jobs(p) : fut[p][j] = "PENDING"

\* C9 as claimed: a removal that fails does not make the refresh fail.
C9_BestEffortPruning ==
    \A p \in Procs : pruneFailed[p] => refresh[p] # "failed"

\* C9 as amended: a removal that fails is fatal to the refresh: the loop is
\* left without visiting the remaining copies, main returns and no job is
\* dispatched.
C9_PruneFailureIsFatal ==
    \A p \in Procs :
        pruneFailed[p] =>
            /\ refresh[p] = "failed"
            /\ pc[p] \in {"release", "exited"}
            /\ \A k \in 2..Len(imageIds[p]) : imageIds[p][k] \notin rmiTried[p]
            /\ \A j \in 1..MaxJobs : fut[p][j] = "none" /\ invoked[p][j] = 0

C9_Witness ==
    \E p \in Procs : pruneFailed[p] /\ Len(imageIds[p]) >= 2 /\ pc[p] = "exited"

\* C10: the copy the run pulled is never handed to docker rmi, and is still
\* cached when the run's refresh has succeeded.
C10_RetainedSurvives ==
    \A p \in Procs :
        /\ pulled[p] \notin rmiTried[p]
        /\ (script[p] = "run" /\ refresh[p] = "ok") => pulled[p] \in images

\* The failures of external programs the process has met: its refresh, and
\* every installer call that did not exit with status 0.
Failures(p) ==
    (IF refresh[p] = "failed" THEN 1 ELSE 0)
        + Cardinality({j \in 1..MaxJobs : exitOf[p][j] \in {"nonzero", "nostart"}})

\* C11 (as claimed): with the channel or the token unconfigured no process
\* ever makes a delivery attempt.  run.py posts regardless.
C11_NoDeliveryWhenUnconfigured ==
    \A p \in Procs : ~slackOn => deliveries[p] = 0

\* C12 (as claimed): once main has returned or the process has ended, the
\* number of send_slack_message calls equals the number of failures met.
C12_OneNotificationPerFailure ==
    \A p \in Procs : pc[p] \in {"release", "exited"} => notifs[p] = Failures(p)

\* C13: a step in which send_slack_message attempts a delivery, whether the
\* delivery succeeds or raises, does not end the process, writes the
\* failure to the error log, and passes the failure on: the refresh is
\* failed with nothing dispatched, or the job is reported Failed, or the
\* job's Future is finished with the installer's error.
C13_NotificationFailuresContained ==
    [][\A p \in Procs :
          deliveries'[p] > deliveries[p] =>
             /\ pc'[p] # "exited"
             /\ errLog'[p] > errLog[p]
             /\ \/ refresh'[p] = "failed" /\ pc'[p] = "release" /\ ~Started(p)
                \/ \E j \in Jobs(p) : outcome[p][j] = "none" /\ outcome'[p][j] = "Failed"
                \/ \E j \in Jobs(p) : /\ fut[p][j] = "RUNNING"
                                       /\ fut'[p][j] = "FINISHED"
                                       /\ exitOf'[p][j] = "nonzero"]_vars

\* A run in which a delivery raised, the failed job was still reported, main
\* returned and the process ended with status 0.
C13_Witness ==
    \E p \in Procs :
        /\ delivFailed[p]
        /\ pc[p] = "exited"
        /\ exitStatus[p] = 0
        /\ \E j \in Jobs(p) : outcome[p][j] = "Failed"

\* C14 (as claimed): the step of os.remove(lockfile) ends the run with status
\* 0 and the marker absent, whether or not the marker was still there.
C14_IdempotentRelease ==
    [][\A p \in Procs :
          (pc[p] = "release" /\ pc'[p] = "exited") =>
              (exitStatus'[p] = 0 /\ ~lockfile')]_vars

\* C15: a run that completed its orchestration sequence (refresh succeeded,
\* pool created, every job reported) ends with status 0, whichever of its
\* jobs failed.
C15_JobFailuresNotEscalated ==
    \A p \in Procs :
        (DispatcherFinished(p) /\ pc[p] = "exited") => exitStatus[p] = 0

\* A run of run.py that acquired the lock, all of whose jobs failed, ended.
C15_Witness ==
    \E p \in Procs :
        /\ acquired[p]
        /\ DispatcherFinished(p)
        /\ pc[p] = "exited"
        /\ appIds[p] = MaxJobs
        /\ \A j \in Jobs(p) : outcome[p][j] = "Failed"

\* C16 (as claimed): a run.py process ends with status 1 exactly when it
\* found the marker at entry.
C16_StatusOneIffLockHeld ==
    \A p \in Procs :
        (script[p] = "run" /\ pc[p] = "exited") =>
            (exitStatus[p] = 1 <=> lockAtEntry[p] = "present")

\* C17: acquire, refresh, dispatch, release happen in that order: a refresh
\* is started only by a run.py process past acquisition, jobs are submitted
\* only after a successful refresh, and a run that removed the marker has no
\* job queued or running, no busy pool thread and an outcome reported for
\* every job it submitted.
C17_ReleaseOrdering ==
    \A p \in Procs :
        /\ (script[p] = "run" /\ refresh[p] # "none") => acquired[p]
        /\ Started(p) => refresh[p] = "ok"
        /\ releases[p] > 0 =>
              /\ pc[p] = "exited"
              /\ refresh[p] \in {"ok", "failed"}
              /\ Running(p) = {}
              /\ \A w \in 1..MaxWorkers : worker[p][w] = 0
              /\ \A j \in 1..MaxJobs :
                    \/ fut[p][j] = "none"
                    \/ fut[p][j] = "FINISHED" /\ outcome[p][j] \in {"Succeeded", "Failed"}

\* A run that dispatched the longest list, with a failure among its jobs,
\* and then removed the marker.
C17_Witness ==
    \E p \in Procs :
        /\ releases[p] = 1
        /\ appIds[p] = MaxJobs
        /\ \E j \in Jobs(p) : outcome[p][j] = "Failed"
        /\ \A j \in Jobs(p) : fut[p][j] = "FINISHED"

\* C18 (as claimed): a process that finds the marker at its check exits with
\* status 1 and leaves the marker in place, and a process removes the marker
\* only if its own open() created it.
C18_StaleLockBlocks ==
    [][\A p \in Procs :
          /\ (pc[p] = "check" /\ lockfile /\ pc'[p] # pc[p]) =>
                (pc'[p] = "exited" /\ exitStatus'[p] = 1 /\ lockfile' /\ ~acquired'[p])
          /\ releases'[p] > releases[p] => lockOwner = p]_vars

\* The run removed the marker and reported a terminal outcome for every job
\* it submitted.
RunDone(p) ==
    /\ releases[p] = 1
    /\ ~lockfile
    /\ \A j \in 1..MaxJobs : fut[p][j] # "none" => outcome[p][j] \in {"Succeeded", "Failed"}

\* C19: under fair scheduling a run that acquired the lock and parsed a
\* concurrency of at least 1 eventually is done (marker removed, every
\* submitted job reported), unless one of its installers never exits; and a
\* run with an installer that never exits is never done.
C19_Termination ==
    /\ \A p \in Procs :
          (acquired[p] /\ maxWorkers[p] >= 1) ~> (RunDone(p) \/ hung[p] # {})
    /\ [](\A p \in Procs : hung[p] # {} => ~RunDone(p))

\* A run with the longest list of jobs and fewer pool threads than jobs
\* that is done.
C19_Witness ==
    \E p \in Procs :
        /\ acquired[p]
        /\ appIds[p] = MaxJobs
        /\ maxWorkers[p] = 1
        /\ Started(p)
        /\ RunDone(p)

\* The steps a Future takes: submitted, taken by a pool thread, finished.
FutureSteps ==
    {<<"none", "PENDING">>, <<"PENDING", "RUNNING">>, <<"RUNNING", "FINISHED">>}

=============================================================================
